---- MODULE Spec2Model ----
(***************************************************************************)
(* Model of engine/src/conversion/mod.rs: BridgeConverter::convert and     *)
(* BridgeConverter::find_items_in_root.  The stages convert calls into     *)
(* (identify_byvalue_safe_types, ParseBindgen::convert_items,              *)
(* filter_apis_by_following_edges_from_allowlist and                       *)
(* CodeGenerator::generate_code) live in other modules of the crate; they  *)
(* are modelled from their description and from their call signatures.     *)
(***************************************************************************)
EXTENDS Integers, Sequences, FiniteSets, TLC

\* ------------------------------------------------------------------ bounds
MaxItems == 2        \* longest top-level item list of the bindgen mod
MaxDecls == 2        \* longest item list inside a nested mod
NumNames == 3        \* API record names used in garbage-collection runs

\* ------------------------------------------------------------ input data
Names == 1..NumNames

\* a declaration inside the root mod: its name and the type names it mentions
Decl(n, r) == [name |-> n, refs |-> r]

\* declarations of whole-pipeline runs: declaration 1 mentions type 2
PipelineDecls == {Decl(1, {2}), Decl(2, {})}

SeqsUpTo(S, n) == UNION {[1..k -> S] : k \in 0..n}

\* Option<(Brace, Vec<Item>)>
NoBody == [some |-> FALSE, items |-> <<>>]
Body(its) == [some |-> TRUE, items |-> its]
Contents(S, n) == {NoBody} \cup {Body(s) : s \in SeqsUpTo(S, n)}

\* syn::Item: either Item::Mod or anything else
OtherItem == [kind |-> "Other", ident |-> "", content |-> NoBody]
ModItem(id, c) == [kind |-> "Mod", ident |-> id, content |-> c]
Idents == {"root", "other"}
TopItems ==
    {OtherItem}
    \cup {ModItem("root", c) : c \in Contents(PipelineDecls, MaxDecls)}
    \cup {ModItem(id, c) : id \in Idents \ {"root"}, c \in {NoBody, Body(<<>>)}}

\* syn::ItemMod handed to convert
BindgenMods == {[content |-> c] : c \in Contents(TopItems, MaxItems)}

IncludeLists == {<<>>, <<"a.h", "b.h">>}
PipelineAllowlists == {{1}, {2}}

\* ------------------------------------------------------------- results
OkRes(its) == [tag |-> "Ok", err |-> "", items |-> its]
ErrRes(e) == [tag |-> "Err", err |-> e, items |-> <<>>]
PanicRes == [tag |-> "Panic", err |-> "", items |-> <<>>]
NoRes == [tag |-> "None", err |-> "", items |-> <<>>]

AnalyzerErrors == {"SafetyViolation"}
ParserErrors == {"UnrecognizedDeclaration"}
CodegenErrors == {"UnrecognizedDeclaration"}

Stages == <<"extract", "byvalue", "parse", "gc", "codegen">>
StageSet == {Stages[i] : i \in 1..Len(Stages)}

VARIABLES
    bindgen_mod,       \* the ItemMod argument of convert
    include_list,      \* BridgeConverter.include_list
    allowlist,         \* the allowlist held by BridgeConverter.type_database
    pc,                \* position inside convert
    items_to_process,  \* local of convert
    items_in_root,     \* local of convert
    byvalue_arg,       \* what identify_byvalue_safe_types received
    byvalue_checker,   \* local of convert
    parser_args,       \* what ParseBindgen received
    parse_results,     \* local of convert
    gc_arg,            \* what the garbage collector received
    apis,              \* local of convert
    cg_args,           \* what CodeGenerator::generate_code received
    extract_res,       \* what find_items_in_root returned (or that it panicked)
    returned,          \* per stage: "none", "ok", "panic" or the error returned
    calls,             \* stages invoked so far, in order
    result             \* what convert returned

vars == <<bindgen_mod, include_list, allowlist, pc, items_to_process, items_in_root,
          byvalue_arg, byvalue_checker, parser_args, parse_results, gc_arg, apis, cg_args,
          extract_res, returned, calls, result>>

\* ------------------------------------------------- find_items_in_root
\* assert!(root_mod.ident == "root")
AssertRootRemoved(root_mod) == TRUE
AssertRoot(root_mod) == root_mod.ident = "root"

\* return Ok(items)
OkItemsReversed(content) ==
    OkRes([i \in 1..Len(content.items) |-> content.items[Len(content.items) + 1 - i]])
OkItems(content) == OkRes(content.items)

\* the fall-through after the loop: Ok(Vec::new())
EndOfItemsNoContent == ErrRes("NoContent")
EndOfItems == OkRes(<<>>)

RECURSIVE find_items_in_root(_)
find_items_in_root(items) ==
    IF items = <<>> THEN EndOfItems
    ELSE LET item == Head(items) IN
         IF item.kind = "Mod"
         THEN IF ~AssertRoot(item) THEN PanicRes
              ELSE IF item.content.some THEN OkItems(item.content)
              ELSE find_items_in_root(Tail(items))
         ELSE ErrRes("UnexpectedOuterItem")

\* ---------------------------------------------------- the ? operator
\* where convert goes after a call returned r: a panic unwinds, an Err
\* returns from convert, an Ok value goes on to the next statement
TryIgnoresErr(r, next) == IF r.tag = "Panic" THEN "panicked" ELSE next
Try(r, next) ==
    CASE r.tag = "Panic" -> "panicked"
      [] r.tag = "Err" -> "done"
      [] OTHER -> next

\* what convert returns when a call returned r (r is not Ok): Err(r.err)
Returned(r, old) == IF r.tag = "Err" THEN ErrRes(r.err) ELSE old

\* the entry of `returned` for a call that returned r
Outcome(r) ==
    CASE r.tag = "Ok" -> "ok"
      [] r.tag = "Err" -> r.err
      [] OTHER -> "panic"

\* items.drain(..) on the content of bindgen_mod
DrainKeepsItems(m) == m
Drain(m) == [m EXCEPT !.content.items = <<>>]

\* ------------------------------------------------ downstream stages
\* identify_byvalue_safe_types: the names whose declarations mention no type
ByValueSafe(items) == {items[i].name : i \in {j \in 1..Len(items) : items[j].refs = {}}}

\* ParseBindgen::convert_items: one API record per declaration, with its edges
ParseOutput(items, checker) ==
    [apis |-> [i \in 1..Len(items) |-> [name |-> items[i].name, deps |-> items[i].refs]],
     use_stmts_by_mod |-> {items[i].name : i \in 1..Len(items)}]

EmptyParseResults == [apis |-> <<>>, use_stmts_by_mod |-> {}]

\* the first argument of filter_apis_by_following_edges_from_allowlist
GcArgDropsFirst(pr) == IF pr.apis = <<>> THEN <<>> ELSE Tail(pr.apis)
GcArg(pr) == pr.apis

RecordNames(as) == {as[i].name : i \in 1..Len(as)}

\* the worklist of the garbage collector
RECURSIVE GcLoop(_, _, _, _)
GcLoop(todos, done, remaining, output) ==
    IF todos = {} THEN output
    ELSE LET todo == CHOOSE t \in todos : \A u \in todos : t <= u
             IsTodo(a) == a.name = todo
             NotTodo(a) == a.name # todo
             these == SelectSeq(remaining, IsTodo)
             deps == UNION {these[i].deps : i \in 1..Len(these)}
         IN  GcLoop((todos \cup deps) \ (done \cup {todo}), done \cup {todo},
                    SelectSeq(remaining, NotTodo), output \o these)

filter_apis_by_following_edges_from_allowlist(as, allow) ==
    GcLoop(RecordNames(as) \cap allow, {}, as, <<>>)

\* the arguments of CodeGenerator::generate_code
CodegenArgsUnfiltered(as, incl, pr, m) ==
    [apis |-> pr.apis, include_list |-> incl,
     use_stmts_by_mod |-> pr.use_stmts_by_mod, bindgen_mod |-> m]
CodegenArgs(as, incl, pr, m) ==
    [apis |-> as, include_list |-> incl,
     use_stmts_by_mod |-> pr.use_stmts_by_mod, bindgen_mod |-> m]

EmptyCodegenArgs == CodegenArgs(<<>>, <<>>, EmptyParseResults, [content |-> NoBody])

StageResults(errors) == {OkRes(<<>>)} \cup {ErrRes(e) : e \in errors}

\* ----------------------------------------------------------- convert
Called(stage) == \E i \in 1..Len(calls) : calls[i] = stage

NothingReturned == [s \in StageSet |-> "none"]

Init ==
    /\ bindgen_mod \in BindgenMods
    /\ include_list \in IncludeLists
    /\ allowlist \in PipelineAllowlists
    /\ pc = "start"
    /\ items_to_process = <<>>
    /\ items_in_root = <<>>
    /\ byvalue_arg = <<>>
    /\ byvalue_checker = {}
    /\ parser_args = [checker |-> {}, items |-> <<>>]
    /\ parse_results = EmptyParseResults
    /\ gc_arg = <<>>
    /\ apis = <<>>
    /\ cg_args = EmptyCodegenArgs
    /\ extract_res = NoRes
    /\ returned = NothingReturned
    /\ calls = <<>>
    /\ result = NoRes

\* match &mut bindgen_mod.content { None => Err(ConvertError::NoContent), .. }
ConvertNoContent ==
    /\ pc = "start"
    /\ ~bindgen_mod.content.some
    /\ result' = ErrRes("NoContent")
    /\ pc' = "done"
    /\ UNCHANGED <<bindgen_mod, include_list, allowlist, items_to_process, items_in_root,
                   byvalue_arg, byvalue_checker, parser_args, parse_results, gc_arg, apis,
                   cg_args, extract_res, returned, calls>>

\* Some((_, items)): drain the items and call find_items_in_root on them
Extract ==
    /\ pc = "start"
    /\ bindgen_mod.content.some
    /\ LET r == find_items_in_root(bindgen_mod.content.items) IN
        /\ items_to_process' = bindgen_mod.content.items
        /\ bindgen_mod' = Drain(bindgen_mod)
        /\ extract_res' = r
        /\ calls' = Append(calls, "extract")
        /\ returned' = [returned EXCEPT !["extract"] = Outcome(r)]
        /\ items_in_root' = IF r.tag = "Ok" THEN r.items ELSE items_in_root
        /\ result' = Returned(r, result)
        /\ pc' = Try(r, "byvalue")
    /\ UNCHANGED <<include_list, allowlist, byvalue_arg, byvalue_checker, parser_args,
                   parse_results, gc_arg, apis, cg_args>>

\* identify_byvalue_safe_types(&items_in_root, &self.type_database)?
Analyze ==
    /\ pc = "byvalue"
    /\ \E r \in StageResults(AnalyzerErrors) :
        /\ byvalue_arg' = items_in_root
        /\ calls' = Append(calls, "byvalue")
        /\ returned' = [returned EXCEPT !["byvalue"] = Outcome(r)]
        /\ byvalue_checker' = IF r.tag = "Ok" THEN ByValueSafe(items_in_root)
                              ELSE byvalue_checker
        /\ result' = Returned(r, result)
        /\ pc' = Try(r, "parse")
    /\ UNCHANGED <<bindgen_mod, include_list, allowlist, items_to_process, items_in_root,
                   parser_args, parse_results, gc_arg, apis, cg_args, extract_res>>

\* ParseBindgen::new(byvalue_checker, ..).convert_items(items_in_root, ..)?
Parse ==
    /\ pc = "parse"
    /\ \E r \in StageResults(ParserErrors) :
        /\ parser_args' = [checker |-> byvalue_checker, items |-> items_in_root]
        /\ calls' = Append(calls, "parse")
        /\ returned' = [returned EXCEPT !["parse"] = Outcome(r)]
        /\ parse_results' = IF r.tag = "Ok" THEN ParseOutput(items_in_root, byvalue_checker)
                            ELSE parse_results
        /\ result' = Returned(r, result)
        /\ pc' = Try(r, "gc")
    /\ UNCHANGED <<bindgen_mod, include_list, allowlist, items_to_process, items_in_root,
                   byvalue_arg, byvalue_checker, gc_arg, apis, cg_args, extract_res>>

\* filter_apis_by_following_edges_from_allowlist(parse_results.apis, &self.type_database)
Gc ==
    /\ pc = "gc"
    /\ gc_arg' = GcArg(parse_results)
    /\ apis' = filter_apis_by_following_edges_from_allowlist(GcArg(parse_results), allowlist)
    /\ calls' = Append(calls, "gc")
    /\ returned' = [returned EXCEPT !["gc"] = "ok"]
    /\ pc' = "codegen"
    /\ UNCHANGED <<bindgen_mod, include_list, allowlist, items_to_process, items_in_root,
                   byvalue_arg, byvalue_checker, parser_args, parse_results, cg_args,
                   extract_res, result>>

\* CodeGenerator::generate_code(apis, self.include_list, use_stmts_by_mod, bindgen_mod)
Codegen ==
    /\ pc = "codegen"
    /\ \E r \in StageResults(CodegenErrors) :
        /\ cg_args' = CodegenArgs(apis, include_list, parse_results, bindgen_mod)
        /\ calls' = Append(calls, "codegen")
        /\ returned' = [returned EXCEPT !["codegen"] = Outcome(r)]
        /\ result' = r
        /\ pc' = "done"
    /\ UNCHANGED <<bindgen_mod, include_list, allowlist, items_to_process, items_in_root,
                   byvalue_arg, byvalue_checker, parser_args, parse_results, gc_arg, apis,
                   extract_res>>

Next == ConvertNoContent \/ Extract \/ Analyze \/ Parse \/ Gc \/ Codegen

Spec == Init /\ [][Next]_vars

\* ------------------------------------- the garbage collector on its own
\* API records 1..k with edges d among the names (an edge to a name above k
\* has no record), as the parser may hand them over
ApiSeq(k, d) == [i \in 1..k |-> [name |-> i, deps |-> d[i]]]

InitGc ==
    /\ bindgen_mod = [content |-> Body(<<>>)]
    /\ include_list = <<>>
    /\ allowlist \in SUBSET Names
    /\ pc = "gc"
    /\ items_to_process = <<ModItem("root", Body(<<>>))>>
    /\ items_in_root = <<>>
    /\ byvalue_arg = <<>>
    /\ byvalue_checker = {}
    /\ parser_args = [checker |-> {}, items |-> <<>>]
    /\ \E k \in 0..NumNames : \E d \in [1..k -> SUBSET Names] :
          parse_results = [apis |-> ApiSeq(k, d), use_stmts_by_mod |-> {}]
    /\ gc_arg = <<>>
    /\ apis = <<>>
    /\ cg_args = EmptyCodegenArgs
    /\ extract_res = OkRes(<<>>)
    /\ returned = [s \in StageSet |-> IF s \in {"extract", "byvalue", "parse"} THEN "ok" ELSE "none"]
    /\ calls = <<"extract", "byvalue", "parse">>
    /\ result = NoRes

NextGc == Gc

SpecGc == InitGc /\ [][NextGc]_vars

\* ------------------------------------------------------------ properties
IsError(o) == o \notin {"none", "ok", "panic"}

IsWrapper(item) == item.kind = "Mod" /\ item.ident = "root" /\ item.content.some

IsBodiedMod(item) == item.kind = "Mod" /\ item.content.some

\* the first top-level mod that has a body
FirstBodied(items) ==
    CHOOSE i \in 1..Len(items) :
        /\ IsBodiedMod(items[i])
        /\ \A j \in 1..(i - 1) : ~IsBodiedMod(items[j])

\* the scan meets a mod not called root: everything before it is a root mod without body
ReachesNonRootMod(items) ==
    \E i \in 1..Len(items) :
        /\ items[i].kind = "Mod"
        /\ items[i].ident # "root"
        /\ \A j \in 1..(i - 1) :
            items[j].kind = "Mod" /\ items[j].ident = "root" /\ ~items[j].content.some

\* S is the reachability closure of the allowlisted records of as: it holds the
\* allowlisted record names, it is closed under the edges that lead to a record,
\* and no smaller set of names is
ClosedUnderEdges(S, as) ==
    \A i \in 1..Len(as) : as[i].name \in S => (as[i].deps \cap RecordNames(as)) \subseteq S
IsClosure(S, as, allow) ==
    /\ S \subseteq RecordNames(as)
    /\ (RecordNames(as) \cap allow) \subseteq S
    /\ ClosedUnderEdges(S, as)
    /\ \A T \in SUBSET S :
        ((RecordNames(as) \cap allow) \subseteq T /\ ClosedUnderEdges(T, as)) => T = S

Range(f) == {f[i] : i \in DOMAIN f}

\* C1: convert is fail-fast: once a stage has returned an error no later stage is
\* invoked, convert has returned, and what it returned is exactly that error.
C1_FailFast ==
    \A i \in 1..Len(calls) :
        IsError(returned[calls[i]]) =>
            /\ i = Len(calls)
            /\ pc = "done"
            /\ result = ErrRes(returned[calls[i]])
C1_Witness ==
    /\ pc = "done"
    /\ returned["byvalue"] = "SafetyViolation"
    /\ items_in_root # <<>>

\* C2 (as claimed): when the top-level items hold no wrapping container (a mod
\* called root with a body), extraction fails with NoContent or UnexpectedOuterItem.
C2_NoWrapperFails ==
    (Called("extract") /\ \A i \in 1..Len(items_to_process) : ~IsWrapper(items_to_process[i]))
        => (extract_res.tag = "Err" /\ extract_res.err \in {"NoContent", "UnexpectedOuterItem"})

\* C3 (as claimed): when the top-level items hold two or more containers,
\* extraction fails with UnexpectedOuterItem.
C3_TwoContainersFail ==
    (Called("extract")
     /\ Cardinality({i \in 1..Len(items_to_process) : items_to_process[i].kind = "Mod"}) >= 2)
        => extract_res = ErrRes("UnexpectedOuterItem")

\* C4 (as claimed): convert never panics, whatever the input tree.
C4_NeverPanics == pc # "panicked"
\* C4 (amended): extraction panics exactly when its scan meets a top-level mod not
\* called root (one preceded only by root mods without body); in every other case
\* it returns Ok or Err.
C4_PanicsExactlyOnNonRootMod ==
    /\ pc = "panicked" <=> (Called("extract") /\ ReachesNonRootMod(items_to_process))
    /\ Called("extract") =>
        (extract_res.tag = "Panic" <=> ReachesNonRootMod(items_to_process))
    /\ Called("extract") => extract_res.tag \in {"Ok", "Err", "Panic"}
C4_Witness ==
    /\ pc = "panicked"
    /\ Len(items_to_process) = 2
    /\ items_to_process[2].ident = "other"

\* C5: when extraction succeeds on items that hold a mod with a body, what it
\* returns is exactly the item sequence of the first such mod, unchanged.
C5_ReturnsNestedItems ==
    (Called("extract") /\ extract_res.tag = "Ok"
     /\ \E i \in 1..Len(items_to_process) : IsBodiedMod(items_to_process[i]))
        => /\ extract_res.items = items_to_process[FirstBodied(items_to_process)].content.items
           /\ items_in_root = extract_res.items
C5_Witness ==
    /\ Called("extract")
    /\ extract_res.tag = "Ok"
    /\ Len(extract_res.items) = 2
    /\ extract_res.items[1] # extract_res.items[2]
    /\ IsWrapper(items_to_process[1])

\* C6: the stages run in the order extract, byvalue, parse, gc, codegen, each at
\* most once, each only after its predecessor returned Ok, and each is handed its
\* predecessor's output: the garbage collector the parser's API records, the code
\* generator the garbage collector's survivors.
C6_StageOrder ==
    /\ Len(calls) <= Len(Stages)
    /\ calls = SubSeq(Stages, 1, Len(calls))
    /\ \A i \in 2..Len(calls) : returned[calls[i - 1]] = "ok"
    /\ \A s \in StageSet : ~Called(s) => returned[s] = "none"
    /\ Called("byvalue") => (extract_res.tag = "Ok" /\ byvalue_arg = extract_res.items)
    /\ Called("parse") => parser_args = [checker |-> byvalue_checker, items |-> items_in_root]
    /\ Called("gc") => gc_arg = parse_results.apis
    /\ Called("gc") => apis = filter_apis_by_following_edges_from_allowlist(gc_arg, allowlist)
    /\ Called("codegen") => cg_args.apis = apis
C6_Witness ==
    /\ pc = "done"
    /\ calls = Stages
    /\ result.tag = "Ok"
    /\ Len(gc_arg) = 2
    /\ Len(cg_args.apis) = 1

\* C7: convert returns NoContent exactly when the input mod has no body; a mod that
\* is present but holds no items, and a root mod without items, give the empty
\* sequence and never NoContent.
C7_NoContentIffNoBody ==
    /\ pc = "done" => (result = ErrRes("NoContent") <=> ~bindgen_mod.content.some)
    /\ Called("extract") => extract_res.err # "NoContent"
    /\ (Called("extract")
        /\ \A i \in 1..Len(items_to_process) :
              /\ items_to_process[i].kind = "Mod"
              /\ items_to_process[i].ident = "root"
              /\ items_to_process[i].content.items = <<>>)
          => extract_res = OkRes(<<>>)
C7_Witness ==
    /\ pc = "done"
    /\ result = ErrRes("NoContent")
    /\ calls = <<>>

\* C8 (as claimed): a top-level item that is no mod makes extraction fail with
\* UnexpectedOuterItem wherever it stands in the list.
C8_AnyOuterItemFails ==
    (Called("extract")
     /\ \E i \in 1..Len(items_to_process) : items_to_process[i].kind # "Mod")
        => extract_res = ErrRes("UnexpectedOuterItem")

\* C9: the garbage collector returns exactly the parsed API records whose name is
\* allowlisted or reachable over edges from an allowlisted record; the others are
\* discarded, an allowlisted name without record adds nothing, and it never fails.
C9_GcIsClosure ==
    Called("gc") =>
        /\ returned["gc"] = "ok"
        /\ Len(apis) = Cardinality(Range(apis))
        /\ IsClosure(RecordNames(apis), parse_results.apis, allowlist)
        /\ Range(apis) = {a \in Range(parse_results.apis) : a.name \in RecordNames(apis)}
C9_Witness ==
    /\ Called("gc")
    /\ Len(parse_results.apis) = 3
    /\ \E i \in 1..Len(apis) : apis[i].name \notin allowlist
    /\ Len(apis) = 2

\* C10: the mod handed to the code generator has a body with no items left, and the
\* include list handed to it is the converter's include list.
C10_DrainedModToCodegen ==
    Called("codegen") =>
        /\ cg_args.bindgen_mod.content.some
        /\ cg_args.bindgen_mod.content.items = <<>>
        /\ cg_args.bindgen_mod = bindgen_mod
        /\ cg_args.include_list = include_list
C10_Witness ==
    /\ Called("codegen")
    /\ items_to_process # <<>>
    /\ include_list # <<>>

====
